---- MODULE Spec2Model ----
(***************************************************************************)
(* The SuperLU easyblock (easybuild/easyblocks/s/superlu.py): the four     *)
(* lifecycle hooks of EB_SuperLU, the build configuration they read and    *)
(* update, and the part of the installation directory they look at.        *)
(*                                                                         *)
(* A hook that delegates to the generic step of its parent class is two    *)
(* steps of the state machine, joined by the program position pc: the      *)
(* hook's own code, and the generic step it calls.  Nothing else can run   *)
(* between the two.  The driver runs the hooks in the order of a build     *)
(* (configure, test, install, sanity check); a hook that raises ends the   *)
(* build.                                                                  *)
(***************************************************************************)
EXTENDS Naturals, Sequences, FiniteSets

VARIABLES
    cfg,          \* self.cfg: the build configuration (easyconfig parameters)
    pic,          \* self.toolchain.options['pic']
    shared_ext,   \* what get_shared_lib_ext() returns on this platform
    fs,           \* the installation directory: path -> entry
    pc,           \* position of the hook in progress ("idle": none)
    probed,       \* math libraries get_software_root reports to the configure_step in progress
    reinstalled,  \* the generic install of the install_step in progress left fs as it found it
    symlink_calls,\* os.symlink calls made by the install_step in progress
    sanity_args,  \* custom_paths handed to the generic sanity check in progress
    result        \* how the last finished hook ended

vars == <<cfg, pic, shared_ext, fs, pc, probed, reinstalled, symlink_calls, sanity_args, result>>

-----------------------------------------------------------------------------
(* Bounds of the model *)

\* configure_step calls per build (each call lengthens configopts)
MaxConfigure == 2

-----------------------------------------------------------------------------
(* Values *)

None == "None"

MathLibs == {"imkl", "ACML", "ATLAS", "OpenBLAS"}

\* the platform's shared library extension: Linux, macOS
SharedLibExts == {"so", "dylib"}

Versions == {"5.1.1", "5.2.1"}

installdir == "/software/SuperLU"

\* configopts as the easyconfig gives it, before any hook ran
InitialConfigopts == <<"-DCMAKE_BUILD_TYPE=Release">>

Range(s) == {s[i] : i \in DOMAIN s}

-----------------------------------------------------------------------------
(* The driver: the order of the steps of a build *)

Steps == <<"configure_step", "test_step", "install_step", "sanity_check_step">>

StepNo(h) == IF h = None THEN 0 ELSE CHOOSE i \in DOMAIN Steps : Steps[i] = h

\* hook h may be entered: no hook is in progress, the build has not been
\* ended by an error, and no later step of the build has run yet
may_run(h) == pc = "idle" /\ StepNo(h) >= StepNo(result.hook)

Finished(h, status, msg) == [hook |-> h, status |-> status, msg |-> msg]

\* where the build is after a hook ended with `status`
after(status) == IF status = "ok" THEN "idle" ELSE "aborted"

-----------------------------------------------------------------------------
(* Option declaration *)

extra_options ==
    [build_shared_libs |-> <<FALSE, "Build shared library (instead of static library)", "CUSTOM">>]

-----------------------------------------------------------------------------
(* The filesystem under installdir *)

os_path_join(a, b) == a \o "/" \o b

Absent == [kind |-> "absent", target |-> ""]
File == [kind |-> "file", target |-> ""]
Dir == [kind |-> "dir", target |-> ""]
DirReadOnly == [kind |-> "dir_ro", target |-> ""]
Link(t) == [kind |-> "link", target |-> t]

LibDir == os_path_join(installdir, "lib")
Header == os_path_join(installdir, "include/supermatrix.h")

LibExts == SharedLibExts \cup {"a"}

LibPaths ==
    {os_path_join(LibDir, "libsuperlu." \o e) : e \in LibExts}
    \cup {os_path_join(LibDir, "libsuperlu_" \o v \o "." \o e) : v \in Versions, e \in LibExts}

Paths == {LibDir, Header} \cup LibPaths

\* os.path.lexists: there is an entry, whatever it is
os_path_lexists(f, p) == p \in DOMAIN f /\ f[p].kind # "absent"

\* os.path.exists: follows symbolic links, False for a broken link
RECURSIVE resolves(_, _, _)
resolves(f, p, seen) ==
    IF p \notin DOMAIN f \/ p \in seen THEN FALSE
    ELSE IF f[p].kind = "link" THEN resolves(f, f[p].target, seen \cup {p})
    ELSE f[p].kind # "absent"

os_path_exists(f, p) == resolves(f, p, {})

\* os.symlink(src, dst): the outcome and the filesystem after it.  The
\* target src is not looked at; the directory holding dst must exist and be
\* writable and dst must not be taken.
os_symlink(f, src, dst) ==
    IF f[LibDir].kind = "absent" THEN [err |-> "ENOENT", fs |-> f]
    ELSE IF os_path_lexists(f, dst) THEN [err |-> "EEXIST", fs |-> f]
    ELSE IF f[LibDir].kind = "dir_ro" THEN [err |-> "EACCES", fs |-> f]
    ELSE [err |-> None, fs |-> [f EXCEPT ![dst] = Link(src)]]

-----------------------------------------------------------------------------
(* configure_step *)

\* faulty variant of cfg_update: the value replaces configopts
cfg_update_assign(c, value) == [c EXCEPT !.configopts = <<value>>]

\* self.cfg.update('configopts', value)
cfg_update(c, value) == [c EXCEPT !.configopts = Append(@, value)]

\* truth value of get_software_root(name)
get_software_root(roots, name) == name \in roots

\* faulty variant of shared_libs_flag: the two branches swapped
shared_libs_flag_inverted(c) ==
    IF c.build_shared_libs THEN "-DBUILD_SHARED_LIBS=OFF" ELSE "-DBUILD_SHARED_LIBS=ON"

shared_libs_flag(c) ==
    IF c.build_shared_libs THEN "-DBUILD_SHARED_LIBS=ON" ELSE "-DBUILD_SHARED_LIBS=OFF"

pic_flag(p) ==
    IF p THEN "-DCMAKE_POSITION_INDEPENDENT_CODE=ON"
    ELSE "-DCMAKE_POSITION_INDEPENDENT_CODE=OFF"

blaslib_flag == "-Denable_blaslib=OFF"

\* faulty variant of blas_flag: ATLAS probed before ACML
blas_flag_atlas_first(roots) ==
    IF get_software_root(roots, "imkl") THEN "-DBLA_VENDOR=\"Intel10_64lp\""
    ELSE IF get_software_root(roots, "ATLAS") THEN "-DBLA_VENDOR=\"ATLAS\""
    ELSE IF get_software_root(roots, "ACML") THEN "-DBLA_VENDOR=\"ACML\""
    ELSE IF get_software_root(roots, "OpenBLAS")
        THEN "-DBLAS_LIBRARIES=\"${EBROOTOPENBLAS}/lib/libopenblas.a;-pthread\""
    ELSE "-DBLA_VENDOR=\"All\""

blas_flag(roots) ==
    IF get_software_root(roots, "imkl") THEN "-DBLA_VENDOR=\"Intel10_64lp\""
    ELSE IF get_software_root(roots, "ACML") THEN "-DBLA_VENDOR=\"ACML\""
    ELSE IF get_software_root(roots, "ATLAS") THEN "-DBLA_VENDOR=\"ATLAS\""
    ELSE IF get_software_root(roots, "OpenBLAS")
        THEN "-DBLAS_LIBRARIES=\"${EBROOTOPENBLAS}/lib/libopenblas.a;-pthread\""
    ELSE "-DBLA_VENDOR=\"All\""

\* faulty variant of configure_cfg: the bundled BLAS is disabled after the
\* BLAS library was selected
configure_cfg_blaslib_last(c, p, roots) ==
    LET c1 == [c EXCEPT !.separate_build_dir = TRUE]
        c2 == cfg_update(c1, shared_libs_flag(c1))
        c3 == cfg_update(c2, pic_flag(p))
        c4 == cfg_update(c3, blas_flag(roots))
    IN cfg_update(c4, blaslib_flag)

\* the configuration when configure_step reaches its super() call
configure_cfg(c, p, roots) ==
    LET c1 == [c EXCEPT !.separate_build_dir = TRUE]
        c2 == cfg_update(c1, shared_libs_flag(c1))
        c3 == cfg_update(c2, pic_flag(p))
        c4 == cfg_update(c3, blaslib_flag)
    IN cfg_update(c4, blas_flag(roots))

configure_step ==
    /\ may_run("configure_step")
    /\ Len(cfg.configopts) < Len(InitialConfigopts) + 4 * MaxConfigure
    /\ \E roots \in SUBSET MathLibs :
        /\ probed' = roots
        /\ cfg' = configure_cfg(cfg, pic, roots)
    /\ pc' = "configure_super"
    /\ UNCHANGED <<pic, shared_ext, fs, reinstalled, symlink_calls, sanity_args, result>>

\* CMakeMake.configure_step: runs cmake with the configopts; it may fail
generic_configure_step ==
    /\ pc = "configure_super"
    /\ \E status \in {"ok", "generic_failed"} :
        /\ result' = Finished("configure_step", status, "")
        /\ pc' = after(status)
    /\ probed' = {}
    /\ UNCHANGED <<cfg, pic, shared_ext, fs, reinstalled, symlink_calls, sanity_args>>

-----------------------------------------------------------------------------
(* test_step *)

\* faulty variant of test_step: delegates before runtest is set
test_step_delegate_first ==
    /\ may_run("test_step")
    /\ pc' = "test_super"
    /\ UNCHANGED <<cfg, pic, shared_ext, fs, probed, reinstalled, symlink_calls, sanity_args, result>>

test_step ==
    /\ may_run("test_step")
    /\ cfg' = [cfg EXCEPT !.runtest = "test"]
    /\ pc' = "test_super"
    /\ UNCHANGED <<pic, shared_ext, fs, probed, reinstalled, symlink_calls, sanity_args, result>>

\* CMakeMake.test_step: runs "make <runtest>"; it may fail
generic_test_step ==
    /\ pc = "test_super"
    /\ \E status \in {"ok", "generic_failed"} :
        /\ result' = Finished("test_step", status, "")
        /\ pc' = after(status)
    /\ UNCHANGED <<cfg, pic, shared_ext, fs, probed, reinstalled, symlink_calls, sanity_args>>

-----------------------------------------------------------------------------
(* install_step *)

lib_ext_install(c, ext) == IF c.build_shared_libs THEN ext ELSE "a"

expected_libpath(c, ext) ==
    os_path_join(os_path_join(installdir, "lib"), "libsuperlu." \o lib_ext_install(c, ext))

\* faulty variant of actual_libpath: the version is left out
actual_libpath_unversioned(c, ext) ==
    os_path_join(os_path_join(installdir, "lib"), "libsuperlu_." \o lib_ext_install(c, ext))

actual_libpath(c, ext) ==
    os_path_join(os_path_join(installdir, "lib"),
                 "libsuperlu_" \o c.version \o "." \o lib_ext_install(c, ext))

\* the library of the kind this configuration does not build
other_ext(c, ext) == IF c.build_shared_libs THEN "a" ELSE ext

\* what "make install" can write: the header, the library under its plain
\* or its versioned name, and a library of the other kind
Producible(c, ext) ==
    {Header,
     os_path_join(LibDir, "libsuperlu." \o lib_ext_install(c, ext)),
     os_path_join(LibDir, "libsuperlu_" \o c.version \o "." \o lib_ext_install(c, ext)),
     os_path_join(LibDir, "libsuperlu." \o other_ext(c, ext))}

\* the filesystem after the generic install wrote the files of `produced`
generic_install_fs(f, produced) ==
    [p \in Paths |->
        IF p \in produced THEN File
        ELSE IF p = LibDir /\ f[p].kind = "absent" /\ produced \cap LibPaths # {} THEN Dir
        ELSE f[p]]

\* install_step up to the return of super().install_step(): the generic
\* install writes some files and ends well or fails; a failure leaves
\* install_step at once
install_step_super ==
    /\ may_run("install_step")
    /\ symlink_calls' = 0
    /\ \E produced \in SUBSET Producible(cfg, shared_ext), status \in {"ok", "generic_failed"} :
        /\ (produced \cap LibPaths # {}) => fs[LibDir].kind # "dir_ro"
        /\ fs' = generic_install_fs(fs, produced)
        /\ IF status = "ok"
           THEN /\ pc' = "install_symlink"
                /\ reinstalled' = (fs' = fs)
                /\ UNCHANGED result
           ELSE /\ pc' = after(status)
                /\ reinstalled' = FALSE
                /\ result' = Finished("install_step", status, "")
    /\ UNCHANGED <<cfg, pic, shared_ext, probed, sanity_args>>

\* faulty variant of status_of: the OSError is swallowed
status_of_swallow(err) == "ok"

\* try: os.symlink(...) except OSError as err: raise EasyBuildError(...)
status_of(err) == IF err = None THEN "ok" ELSE "EasyBuildError"

symlink_error_msg(expected, actual) ==
    "Failed to create symlink '" \o expected \o "' -> '" \o actual

\* install_step after super().install_step() returned
install_step_symlink ==
    /\ pc = "install_symlink"
    /\ LET expected == expected_libpath(cfg, shared_ext)
           actual == actual_libpath(cfg, shared_ext)
       IN IF ~ os_path_exists(fs, expected)
          THEN LET r == os_symlink(fs, actual, expected)
                   status == status_of(r.err)
               IN /\ symlink_calls' = symlink_calls + 1
                  /\ fs' = r.fs
                  /\ result' = Finished("install_step", status,
                                        IF status = "ok" THEN ""
                                        ELSE symlink_error_msg(expected, actual))
                  /\ pc' = after(status)
          ELSE /\ UNCHANGED <<fs, symlink_calls>>
               /\ result' = Finished("install_step", "ok", "")
               /\ pc' = after("ok")
    /\ reinstalled' = FALSE
    /\ UNCHANGED <<cfg, pic, shared_ext, probed, sanity_args>>

-----------------------------------------------------------------------------
(* sanity_check_step *)

\* faulty variant of lib_ext_sanity: the Linux extension on every platform
lib_ext_sanity_linux(c, ext) == IF c.build_shared_libs THEN "so" ELSE "a"

lib_ext_sanity(c, ext) == IF c.build_shared_libs THEN ext ELSE "a"

\* faulty variant of custom_paths: the header is not asked for
custom_paths_no_header(c, ext) ==
    [files |-> <<"lib/libsuperlu." \o lib_ext_sanity(c, ext)>>, dirs |-> <<>>]

custom_paths(c, ext) ==
    [files |-> <<"include/supermatrix.h", "lib/libsuperlu." \o lib_ext_sanity(c, ext)>>,
     dirs |-> <<>>]

NoPaths == [files |-> <<>>, dirs |-> <<>>]

sanity_check_step ==
    /\ may_run("sanity_check_step")
    /\ sanity_args' = custom_paths(cfg, shared_ext)
    /\ pc' = "sanity_super"
    /\ UNCHANGED <<cfg, pic, shared_ext, fs, probed, reinstalled, symlink_calls, result>>

\* the generic sanity check: every file and directory of custom_paths,
\* taken relative to installdir, must exist
sanity_check_passes(f, paths) ==
    /\ \A i \in DOMAIN paths.files : os_path_exists(f, os_path_join(installdir, paths.files[i]))
    /\ \A i \in DOMAIN paths.dirs : os_path_exists(f, os_path_join(installdir, paths.dirs[i]))

generic_sanity_check_step ==
    /\ pc = "sanity_super"
    /\ LET status == IF sanity_check_passes(fs, sanity_args) THEN "ok" ELSE "generic_failed"
       IN /\ result' = Finished("sanity_check_step", status, "")
          /\ pc' = after(status)
    /\ sanity_args' = NoPaths
    /\ UNCHANGED <<cfg, pic, shared_ext, fs, probed, reinstalled, symlink_calls>>

-----------------------------------------------------------------------------
(* The state machine *)

EmptyFs(libdir) == [p \in Paths |-> IF p = LibDir THEN libdir ELSE Absent]

Init ==
    /\ \E shared \in {extra_options.build_shared_libs[1], TRUE}, v \in Versions :
        cfg = [separate_build_dir |-> FALSE,
               build_shared_libs |-> shared,
               configopts |-> InitialConfigopts,
               runtest |-> None,
               version |-> v]
    /\ pic \in BOOLEAN
    /\ shared_ext \in SharedLibExts
    /\ \E libdir \in {Absent, Dir, DirReadOnly} : fs = EmptyFs(libdir)
    /\ pc = "idle"
    /\ probed = {}
    /\ reinstalled = FALSE
    /\ symlink_calls = 0
    /\ sanity_args = NoPaths
    /\ result = Finished(None, "ok", "")

Next ==
    \/ configure_step
    \/ generic_configure_step
    \/ test_step
    \/ generic_test_step
    \/ install_step_super
    \/ install_step_symlink
    \/ sanity_check_step
    \/ generic_sanity_check_step

Spec == Init /\ [][Next]_vars

-----------------------------------------------------------------------------
(* Vocabulary of the properties, stated without the operators above *)

\* the flags a step appended to configopts
Appended(old, new) == SubSeq(new.configopts, Len(old.configopts) + 1, Len(new.configopts))

\* the step just taken is the body of the named hook, up to its super() call
ConfigureBody == pc = "idle" /\ pc' = "configure_super"
TestBody == pc = "idle" /\ pc' = "test_super"
SanityBody == pc = "idle" /\ pc' = "sanity_super"
InstallGeneric == pc = "idle" /\ pc' \in {"install_symlink", "aborted"}
InstallFixup == pc = "install_symlink"
SanityGeneric == pc = "sanity_super"

SharedOn == "-DBUILD_SHARED_LIBS=ON"
SharedOff == "-DBUILD_SHARED_LIBS=OFF"
PicOn == "-DCMAKE_POSITION_INDEPENDENT_CODE=ON"
PicOff == "-DCMAKE_POSITION_INDEPENDENT_CODE=OFF"
BlaslibOff == "-Denable_blaslib=OFF"

VendorPriority == <<"imkl", "ACML", "ATLAS", "OpenBLAS">>

VendorFlag ==
    [lib \in MathLibs |->
        CASE lib = "imkl" -> "-DBLA_VENDOR=\"Intel10_64lp\""
          [] lib = "ACML" -> "-DBLA_VENDOR=\"ACML\""
          [] lib = "ATLAS" -> "-DBLA_VENDOR=\"ATLAS\""
          [] lib = "OpenBLAS" -> "-DBLAS_LIBRARIES=\"${EBROOTOPENBLAS}/lib/libopenblas.a;-pthread\""]

FallbackFlag == "-DBLA_VENDOR=\"All\""

BlasFlags == {VendorFlag[lib] : lib \in MathLibs} \cup {FallbackFlag}

\* the flag of the first library of VendorPriority that is present
PriorityFlag(present) ==
    IF present \cap MathLibs = {} THEN FallbackFlag
    ELSE LET first == CHOOSE i \in DOMAIN VendorPriority :
                          /\ VendorPriority[i] \in present
                          /\ \A j \in DOMAIN VendorPriority :
                                 j < i => VendorPriority[j] \notin present
         IN VendorFlag[VendorPriority[first]]

\* the library extension of the configuration, and the library's two paths
Ext == IF cfg.build_shared_libs THEN shared_ext ELSE "a"
OtherExt == IF cfg.build_shared_libs THEN "a" ELSE shared_ext
PlainLib == installdir \o "/lib/libsuperlu." \o Ext
VersionedLib == installdir \o "/lib/libsuperlu_" \o cfg.version \o "." \o Ext
OtherLib == installdir \o "/lib/libsuperlu." \o OtherExt
HeaderFile == installdir \o "/include/supermatrix.h"

\* there is a regular file, or a link that leads to one, at p
Present(f, p) ==
    \/ f[p].kind = "file"
    \/ f[p].kind = "link" /\ f[p].target \in DOMAIN f /\ f[f[p].target].kind = "file"

Dangling(f, p) == f[p].kind = "link" /\ ~ Present(f, p)

-----------------------------------------------------------------------------
(* C1: configure_step appends exactly one BLAS selection flag, and it is    *)
(* the flag of the highest-priority math library that get_software_root     *)
(* reports (imkl, then ACML, then ATLAS, then OpenBLAS with its manual      *)
(* BLAS_LIBRARIES path), or BLA_VENDOR="All" when none is reported.         *)
C1_BlasPriority ==
    [][ConfigureBody =>
          LET app == Appended(cfg, cfg')
          IN /\ Cardinality({i \in DOMAIN app : app[i] \in BlasFlags}) = 1
             /\ \A i \in DOMAIN app : app[i] \in BlasFlags => app[i] = PriorityFlag(probed')]_vars

\* ATLAS and OpenBLAS are both present and the ATLAS flag was appended
C1_Witness ==
    /\ pc = "configure_super"
    /\ probed = {"ATLAS", "OpenBLAS"}
    /\ cfg.configopts[Len(cfg.configopts)] = "-DBLA_VENDOR=\"ATLAS\""

-----------------------------------------------------------------------------
(* C4: the flags one configure_step call appends hold -DBUILD_SHARED_LIBS=ON *)
(* and not ...=OFF when build_shared_libs is true, ...=OFF and not ...=ON    *)
(* when it is false, which is the declared default of the option.            *)
C4_SharedFlag ==
    [][ConfigureBody =>
          LET app == Range(Appended(cfg, cfg'))
          IN /\ extra_options.build_shared_libs[1] = FALSE
             /\ (SharedOn \in app) <=> cfg.build_shared_libs
             /\ (SharedOff \in app) <=> ~ cfg.build_shared_libs]_vars

\* a shared build whose configure_step appended ...=ON
C4_Witness ==
    /\ pc = "configure_super"
    /\ cfg.build_shared_libs
    /\ SharedOn \in Range(cfg.configopts)
    /\ SharedOff \notin Range(cfg.configopts)

-----------------------------------------------------------------------------
(* C8: when configure_step delegates to the generic CMake configure step,    *)
(* separate_build_dir is True and the call has appended to configopts, in    *)
(* this order: the shared/static flag, the PIC flag (ON iff the toolchain's  *)
(* pic option is true), -Denable_blaslib=OFF, the BLAS selection flag.       *)
C8_ConfigureOrder ==
    [][ConfigureBody =>
          LET app == Appended(cfg, cfg')
          IN /\ cfg'.separate_build_dir = TRUE
             /\ Len(app) = 4
             /\ app[1] \in {SharedOn, SharedOff}
             /\ app[2] = (IF pic THEN PicOn ELSE PicOff)
             /\ app[3] = BlaslibOff
             /\ app[4] \in BlasFlags]_vars

\* a delegation with PIC off and OpenBLAS selected
C8_Witness ==
    /\ pc = "configure_super"
    /\ ~ pic
    /\ cfg.separate_build_dir
    /\ Len(cfg.configopts) = Len(InitialConfigopts) + 4
    /\ cfg.configopts[Len(cfg.configopts) - 2] = PicOff
    /\ cfg.configopts[Len(cfg.configopts)] = VendorFlag["OpenBLAS"]

-----------------------------------------------------------------------------
(* C10: configure_step changes only separate_build_dir and configopts, and   *)
(* configopts only by appending four flags to what it held (a repeated call  *)
(* leaves duplicates); test_step changes only runtest; no other step changes *)
(* the configuration; build_shared_libs and version never change.            *)
C10_Frame ==
    [][/\ cfg'.build_shared_libs = cfg.build_shared_libs
       /\ cfg'.version = cfg.version
       /\ ConfigureBody =>
            /\ cfg'.runtest = cfg.runtest
            /\ Len(cfg'.configopts) = Len(cfg.configopts) + 4
            /\ SubSeq(cfg'.configopts, 1, Len(cfg.configopts)) = cfg.configopts
            /\ Len(cfg.configopts) >= Len(InitialConfigopts) + 4 =>
                 \E i, j \in DOMAIN cfg'.configopts :
                     i < j /\ cfg'.configopts[i] = cfg'.configopts[j]
       /\ TestBody => cfg' = [cfg EXCEPT !.runtest = cfg'.runtest]
       /\ ~ (ConfigureBody \/ TestBody) => cfg' = cfg]_vars

\* a second configure_step has run: the easyconfig's option is still first,
\* -Denable_blaslib=OFF is there twice
C10_Witness ==
    /\ Len(cfg.configopts) = Len(InitialConfigopts) + 8
    /\ SubSeq(cfg.configopts, 1, Len(InitialConfigopts)) = InitialConfigopts
    /\ cfg.configopts[Len(InitialConfigopts) + 3] = BlaslibOff
    /\ cfg.configopts[Len(InitialConfigopts) + 7] = BlaslibOff
    /\ cfg.runtest = "test"

-----------------------------------------------------------------------------
(* C2: install_step is idempotent on repeated installs: an install_step     *)
(* that follows a successful one, and whose generic install leaves the      *)
(* installation directory as it found it, changes nothing and succeeds,     *)
(* whether or not the version-suffixed library exists.                      *)
C2_Idempotent ==
    [][(/\ InstallFixup
        /\ result.hook = "install_step"
        /\ result.status = "ok"
        /\ reinstalled)
          => (fs' = fs /\ result'.status = "ok")]_vars

-----------------------------------------------------------------------------
(* C3, as the specification states it: install_step never reports success  *)
(* when the symlink it tried to create was not created or has a missing    *)
(* target.                                                                 *)
C3_NoSuccessWithoutTarget ==
    [][(InstallFixup /\ symlink_calls' = symlink_calls + 1 /\ result'.status = "ok")
          => (fs'[PlainLib].kind = "link" /\ Present(fs', PlainLib))]_vars

(* C3, amended: when install_step tries to create the symlink, it ends in  *)
(* an EasyBuildError naming the expected and the actual path, and leaves   *)
(* the directory as it was, exactly when os.symlink raises: lib/ is        *)
(* missing or not writable, or the unsuffixed path is taken by a broken    *)
(* link.  Otherwise the link is created and install_step succeeds, also    *)
(* when the target is missing.                                             *)
C3_SymlinkFailureIsFatal ==
    [][(InstallFixup /\ ~ Present(fs, PlainLib)) =>
          IF fs[LibDir].kind = "dir" /\ fs[PlainLib].kind = "absent"
          THEN /\ result' = [hook |-> "install_step", status |-> "ok", msg |-> ""]
               /\ fs' = [fs EXCEPT ![PlainLib] = [kind |-> "link", target |-> VersionedLib]]
               /\ pc' = "idle"
          ELSE /\ result' = [hook |-> "install_step", status |-> "EasyBuildError",
                             msg |-> "Failed to create symlink '" \o PlainLib
                                     \o "' -> '" \o VersionedLib]
               /\ fs' = fs
               /\ pc' = "aborted"]_vars

\* install_step ended in the EasyBuildError because lib/ is not writable
C3_Witness ==
    /\ pc = "aborted"
    /\ result.hook = "install_step"
    /\ result.status = "EasyBuildError"
    /\ fs[LibDir].kind = "dir_ro"
    /\ fs[PlainLib].kind = "absent"

-----------------------------------------------------------------------------
(* C5: sanity_check_step asks the generic sanity check for exactly two      *)
(* files and no directory, include/supermatrix.h and lib/libsuperlu.<ext>   *)
(* with <ext> that of the build_shared_libs option; the check succeeds when *)
(* both exist and fails when either is absent, a library with the other     *)
(* extension making no difference.                                          *)
C5_SanityCheck ==
    [][/\ SanityBody =>
            sanity_args' = [files |-> <<"include/supermatrix.h", "lib/libsuperlu." \o Ext>>,
                            dirs |-> <<>>]
       /\ SanityGeneric =>
            /\ result'.hook = "sanity_check_step"
            /\ result'.status = "ok" <=> (Present(fs, HeaderFile) /\ Present(fs, PlainLib))
            /\ result'.status # "ok" => pc' = "aborted"]_vars

\* the sanity check failed with the header and a library of the other
\* extension in place
C5_Witness ==
    /\ pc = "aborted"
    /\ result.hook = "sanity_check_step"
    /\ result.status = "generic_failed"
    /\ fs[HeaderFile].kind = "file"
    /\ fs[OtherLib].kind = "file"
    /\ ~ Present(fs, PlainLib)

-----------------------------------------------------------------------------
(* C6: install_step and sanity_check_step use the same library extension,   *)
(* the platform's shared-library extension when build_shared_libs is true   *)
(* and "a" otherwise, so the only path install_step links is the library    *)
(* path sanity_check_step requires.                                         *)
C6_SameLibrary ==
    [][/\ InstallFixup =>
            /\ lib_ext_install(cfg, shared_ext) = Ext
            /\ \A p \in Paths : fs'[p] # fs[p] =>
                   p = installdir \o "/" \o custom_paths(cfg, shared_ext).files[2]
       /\ SanityBody =>
            /\ lib_ext_sanity(cfg, shared_ext) = Ext
            /\ installdir \o "/" \o sanity_args'.files[2] = expected_libpath(cfg, shared_ext)]_vars

\* on macOS the sanity check accepted the link that install_step made
C6_Witness ==
    /\ pc = "idle"
    /\ result.hook = "sanity_check_step"
    /\ cfg.build_shared_libs
    /\ shared_ext = "dylib"
    /\ fs[installdir \o "/lib/libsuperlu.dylib"].kind = "link"

-----------------------------------------------------------------------------
(* C7: a failure ends the build and nothing is retried; install_step looks  *)
(* at the unsuffixed path and creates the symlink only after the generic    *)
(* install step returned; when the generic install step fails, no symlink   *)
(* is created and the failure is the hook's result; os.symlink is called at *)
(* most once per install_step; runtest is "test" when test_step delegates.  *)
C7_Ordering ==
    [][/\ pc # "aborted"
       /\ result'.status # "ok" <=> pc' = "aborted"
       /\ symlink_calls' <= 1
       /\ pc' = "test_super" => cfg'.runtest = "test"
       /\ (\/ symlink_calls' > symlink_calls
           \/ \E p \in Paths : fs'[p].kind = "link" /\ fs'[p] # fs[p]) => InstallFixup
       /\ InstallFixup => result.hook # "install_step" \/ result.status = "ok"
       /\ (InstallGeneric /\ pc' = "aborted") =>
            /\ result' = [hook |-> "install_step", status |-> "generic_failed", msg |-> ""]
            /\ symlink_calls' = 0]_vars

\* the generic install failed after writing the versioned library: the
\* build is over and there is no link
C7_Witness ==
    /\ pc = "aborted"
    /\ result.hook = "install_step"
    /\ result.status = "generic_failed"
    /\ cfg.runtest = "test"
    /\ fs[VersionedLib].kind = "file"
    /\ fs[PlainLib].kind = "absent"
    /\ symlink_calls = 0

-----------------------------------------------------------------------------
(* C9, as the specification states it: when the generic install step       *)
(* produced neither the unsuffixed nor the version-suffixed library,       *)
(* install_step still completes without error and leaves a broken link.    *)
C9_AlwaysCompletes ==
    [][(InstallFixup /\ fs[PlainLib].kind = "absent" /\ fs[VersionedLib].kind = "absent")
          => (result'.status = "ok" /\ Dangling(fs', PlainLib))]_vars

(* C9, amended: after an install_step that succeeded, the library          *)
(* sanity_check_step requires is there whenever the version-suffixed       *)
(* library is, and the check passes if the header is there too.  When      *)
(* neither library was produced, install_step completes without error and  *)
(* leaves a broken link provided lib/ exists and is writable, and ends in  *)
(* an EasyBuildError otherwise; the sanity check then fails on the broken  *)
(* link.                                                                   *)
C9_InstallThenSanity ==
    [][/\ (InstallFixup /\ result'.status = "ok" /\ fs'[VersionedLib].kind = "file")
            => Present(fs', PlainLib)
       /\ (SanityGeneric /\ fs[VersionedLib].kind = "file" /\ fs[HeaderFile].kind = "file"
             /\ result.hook = "install_step")
            => result'.status = "ok"
       /\ (InstallFixup /\ fs[PlainLib].kind = "absent" /\ fs[VersionedLib].kind = "absent")
            => IF fs[LibDir].kind = "dir"
               THEN result'.status = "ok" /\ Dangling(fs', PlainLib)
               ELSE result'.status = "EasyBuildError" /\ fs' = fs
       /\ (SanityGeneric /\ Dangling(fs, PlainLib)) => result'.status = "generic_failed"]_vars

\* install_step succeeded with a broken link, and the sanity check found
\* the library missing
C9_Witness ==
    /\ pc = "aborted"
    /\ result.hook = "sanity_check_step"
    /\ result.status = "generic_failed"
    /\ fs[HeaderFile].kind = "file"
    /\ Dangling(fs, PlainLib)

====
